---- MODULE Spec2Model ----
(***************************************************************************)
(* A model of two utilities of src/dbg/_global.cpp:                        *)
(*   - the allocation tracker emalloc / erealloc / efree / memleaks,       *)
(*     a live-allocation counter around GlobalAlloc / GlobalFree;          *)
(*   - GetFileArchitecture, which classifies a file by the DOS and NT      *)
(*     headers found in the first 0x1000 bytes it reads.                   *)
(***************************************************************************)
EXTENDS Integers, Sequences, FiniteSets, TLC

(* ---------------------------------------------------------------- bounds *)

\* Largest request size the callers of the model make (0 is the zero-size request).
MaxSize == 2
\* Number of blocks the platform allocator can hand out.
NumAddr == 2
\* Number of allocator calls in one run.
MaxCalls == 3

\* Byte values the callers store into a buffer and the platform leaves in raw memory.
Byte == {0, 255}

NULL == 0
Addr == 1..NumAddr
Ptr == {NULL} \cup Addr
Sizes == 0..MaxSize

\* n bytes of value b.
Fill(n, b) == [i \in 1..n |-> b]

\* The contents the model gives a block of n bytes: n bytes of one value.
Bytes(n) == {Fill(n, b) : b \in Byte}

\* n zero bytes: what memset(a, 0, n) leaves in a buffer.
Zeros(n) == Fill(n, 0)

VARIABLES
    emalloc_count,  \* static int emalloc_count
    heap,           \* the platform allocator's blocks: address -> [st, mem]
    proc,           \* "running", or how the process stopped
    nAlloc,         \* history: GlobalAlloc calls that returned a block
    nFree,          \* history: GlobalFree calls
    calls,          \* history: allocator calls made so far
    last,           \* history: the last allocator call, its arguments and what it did
    probe,          \* the last GetFileArchitecture call, its inputs and its result
    thr,            \* the threads calling the allocator: where each is in its call
    twin,           \* a second run of the same calls, made with other reason strings
    txt,            \* the last string-function call, its arguments and its result
    cfg             \* the Configuration object, the settings store and its last call

vars == <<emalloc_count, heap, proc, nAlloc, nFree, calls, last, probe, thr, twin, txt, cfg>>
allocVars == <<emalloc_count, heap, proc, nAlloc, nFree, calls, last>>

(* ------------------------------------------------------- allocation tracker *)

\* The allocator's state as one value, so that a function that calls another
\* (erealloc calls efree, then emalloc) is the composition of their effects.
\* trace lists what the call in progress did, in order; ret is what it returned;
\* raw is the memory GlobalAlloc handed out, before the memset.
AllocState ==
    [count |-> emalloc_count, heap |-> heap, proc |-> proc,
     nAlloc |-> nAlloc, nFree |-> nFree,
     trace |-> <<>>, ret |-> NULL, raw |-> <<>>, recycled |-> FALSE, oom |-> FALSE]

Event(s, e) == [s EXCEPT !.trace = Append(@, e)]

\* ASSERT_NONZERO(size): the assertion of a nonzero size; a zero size stops the call.
ASSERT_NONZERO(s, size) ==
    IF size = 0 THEN [Event(s, "assert") EXCEPT !.proc = "asserted"] ELSE s

\* GlobalAlloc(GMEM_FIXED, size). ch is the platform's answer: ch.addr is the block it
\* picks (NULL: it has none to give; a block in use cannot be handed out either), and
\* ch.raw is what that memory holds: GMEM_FIXED memory is not initialised.
GlobalAllocFails(s, ch) == ch.addr = NULL \/ s.heap[ch.addr].st = "live"

GlobalAlloc(s, size, ch) ==
    IF GlobalAllocFails(s, ch)
    THEN [Event(s, "GlobalAlloc") EXCEPT !.ret = NULL, !.oom = TRUE]
    ELSE [Event(s, "GlobalAlloc") EXCEPT
            !.recycled = (s.heap[ch.addr].st = "freed"),
            !.heap[ch.addr] = [st |-> "live", mem |-> ch.raw],
            !.raw = ch.raw,
            !.nAlloc = @ + 1,
            !.ret = ch.addr]

\* memset(a, 0, size)
memset0(s, a, size) ==
    [Event(s, "memset") EXCEPT !.heap[a].mem = Zeros(size)]

\* MessageBoxW(0, L"Could not allocate memory", ...); ExitProcess(1);
FatalExit(s) ==
    [Event(Event(s, "MessageBoxW"), "ExitProcess") EXCEPT !.proc = "exited", !.ret = NULL]

\* emalloc without its emalloc_count++.
emalloc_nocount(s, size, ch) ==
    LET s0 == ASSERT_NONZERO(s, size)
        s1 == GlobalAlloc(s0, size, ch)
        a  == s1.ret
        s2 == memset0(s1, a, size)
    IN  IF s0.proc # "running" THEN s0
        ELSE IF a = NULL THEN FatalExit(s1)
        ELSE [Event(s2, "return") EXCEPT !.ret = a]

\* emalloc without its memset: the buffer is returned as GlobalAlloc left it.
emalloc_nomemset(s, size, ch) ==
    LET s0 == ASSERT_NONZERO(s, size)
        s1 == GlobalAlloc(s0, size, ch)
        a  == s1.ret
        s3 == [Event(s1, "inc") EXCEPT !.count = @ + 1]
    IN  IF s0.proc # "running" THEN s0
        ELSE IF a = NULL THEN FatalExit(s1)
        ELSE [Event(s3, "return") EXCEPT !.ret = a]

\* emalloc that hands GlobalAlloc's NULL back to its caller instead of exiting.
emalloc_nullreturn(s, size, ch) ==
    LET s0 == ASSERT_NONZERO(s, size)
        s1 == GlobalAlloc(s0, size, ch)
        a  == s1.ret
        s2 == memset0(s1, a, size)
        s3 == [Event(s2, "inc") EXCEPT !.count = @ + 1]
    IN  IF s0.proc # "running" THEN s0
        ELSE IF a = NULL THEN [Event(s1, "return") EXCEPT !.ret = NULL]
        ELSE [Event(s3, "return") EXCEPT !.ret = a]

\* void* emalloc(size_t size, const char* reason)
emalloc(s, size, ch) ==
    LET s0 == ASSERT_NONZERO(s, size)
        s1 == GlobalAlloc(s0, size, ch)
        a  == s1.ret
        s2 == memset0(s1, a, size)
        s3 == [Event(s2, "inc") EXCEPT !.count = @ + 1]
    IN  IF s0.proc # "running" THEN s0
        ELSE IF a = NULL THEN FatalExit(s1)
        ELSE [Event(s3, "return") EXCEPT !.ret = a]

\* GlobalFree(ptr). Freeing NULL does nothing. Freeing a block that is not allocated
\* (a second release, or a pointer never returned) is undefined: ub chooses between
\* the call being ignored and the process crashing.
GlobalFree(s, ptr, ub) ==
    LET s0 == [Event(s, "GlobalFree") EXCEPT !.nFree = @ + 1]
    IN  IF ptr = NULL THEN s0
        ELSE IF s.heap[ptr].st = "live"
             THEN [s0 EXCEPT !.heap[ptr] = [st |-> "freed", mem |-> <<>>]]
        ELSE IF ub = "crash" THEN [s0 EXCEPT !.proc = "crashed"]
        ELSE s0

\* efree without its emalloc_count--.
efree_nodec(s, ptr, ub) == GlobalFree(s, ptr, ub)

\* efree that returns at once when handed a null pointer.
efree_guarded(s, ptr, ub) ==
    LET s0 == [Event(s, "dec") EXCEPT !.count = @ - 1]
    IN  IF ptr = NULL THEN s ELSE GlobalFree(s0, ptr, ub)

\* void efree(void* ptr, const char* reason)
efree(s, ptr, ub) ==
    LET s0 == [Event(s, "dec") EXCEPT !.count = @ - 1]
    IN  GlobalFree(s0, ptr, ub)

\* erealloc that never releases the old buffer.
erealloc_nofree(s, ptr, size, ch, ub) ==
    LET s0 == ASSERT_NONZERO(s, size)
    IN  IF s0.proc # "running" THEN s0 ELSE emalloc(s0, size, ch)

\* erealloc that allocates the new buffer before it releases the old one.
erealloc_allocfirst(s, ptr, size, ch, ub) ==
    LET s0 == ASSERT_NONZERO(s, size)
        s1 == emalloc(s0, size, ch)
        s2 == IF ptr # NULL THEN [efree(s1, ptr, ub) EXCEPT !.ret = s1.ret] ELSE s1
    IN  IF s0.proc # "running" THEN s0
        ELSE IF s1.proc # "running" THEN s1
        ELSE s2

\* erealloc that releases the old buffer before anything checks the size.
erealloc_latecheck(s, ptr, size, ch, ub) ==
    LET s1 == IF ptr # NULL THEN efree(s, ptr, ub) ELSE s
    IN  IF s1.proc # "running" THEN s1 ELSE emalloc(s1, size, ch)

\* void* erealloc(void* ptr, size_t size, const char* reason)
erealloc(s, ptr, size, ch, ub) ==
    LET s0 == ASSERT_NONZERO(s, size)
        s1 == IF ptr # NULL THEN efree(s0, ptr, ub) ELSE s0
    IN  IF s0.proc # "running" THEN s0
        ELSE IF s1.proc # "running" THEN s1
        ELSE emalloc(s1, size, ch)

\* int memleaks()
memleaks == emalloc_count

\* The platform's possible answers to a request of `size` bytes made by a call that
\* is handed ptr: no block (NULL), or a block that is not in use when GlobalAlloc
\* runs (ptr itself is one once erealloc has released it).
AllocChoices(ptr, size) ==
    {[addr |-> NULL, raw |-> <<>>]} \cup
    {ch \in [addr : Addr, raw : Bytes(size)] :
        heap[ch.addr].st # "live" \/ ch.addr = ptr}
\* What releasing ptr can do beyond the code's own steps: only the release of a
\* block that is not allocated is undefined.
UB(ptr) ==
    IF ptr # NULL /\ heap[ptr].st # "live" THEN {"ignored", "crash"} ELSE {"ignored"}

\* The state after a call: s is what the call made of AllocState. last keeps the
\* call's arguments, the counter before it (pre), what the buffer passed in held (old,
\* wasLive), what the buffer returned held at the return (buf), and whether the call
\* releases the buffer that the call just before it, an emalloc, returned (undo).
Commit(op, ptr, size, s) ==
    /\ emalloc_count' = s.count
    /\ heap' = s.heap
    /\ proc' = s.proc
    /\ nAlloc' = s.nAlloc
    /\ nFree' = s.nFree
    /\ calls' = calls + 1
    /\ last' = [op |-> op, ptr |-> ptr, size |-> size, pre |-> emalloc_count,
                ret |-> s.ret, trace |-> s.trace, raw |-> s.raw,
                recycled |-> s.recycled, oom |-> s.oom,
                wasLive |-> (ptr # NULL /\ heap[ptr].st = "live"),
                old |-> IF ptr # NULL /\ heap[ptr].st = "live" THEN heap[ptr].mem ELSE <<>>,
                buf |-> IF s.ret # NULL THEN s.heap[s.ret].mem ELSE <<>>,
                undo |-> IF op = "efree" /\ last.op = "emalloc" /\ last.ret # NULL
                            /\ ptr = last.ret
                         THEN [is |-> TRUE, pre |-> last.pre]
                         ELSE [is |-> FALSE, pre |-> 0]]
    /\ UNCHANGED <<probe, cfg, thr, txt>>

CanCall == proc = "running" /\ calls < MaxCalls

DoEmalloc ==
    /\ CanCall
    /\ \E size \in Sizes : \E ch \in AllocChoices(NULL, size) :
          Commit("emalloc", NULL, size, emalloc(AllocState, size, ch))
    /\ UNCHANGED twin

DoEfree ==
    /\ CanCall
    /\ \E ptr \in Ptr : \E ub \in UB(ptr) :
          Commit("efree", ptr, 0, efree(AllocState, ptr, ub))
    /\ UNCHANGED twin

DoErealloc ==
    /\ CanCall
    /\ \E ptr \in Ptr : \E size \in Sizes : \E ch \in AllocChoices(ptr, size) : \E ub \in UB(ptr) :
          Commit("erealloc", ptr, size, erealloc(AllocState, ptr, size, ch, ub))
    /\ UNCHANGED twin

\* The owner of a buffer fills it with a byte value.
DoWrite ==
    /\ CanCall
    /\ \E p \in Addr : \E b \in Byte :
          /\ heap[p].st = "live"
          /\ heap[p].mem # Fill(Len(heap[p].mem), b)
          /\ heap' = [heap EXCEPT ![p].mem = Fill(Len(@), b)]
    /\ UNCHANGED <<emalloc_count, proc, nAlloc, nFree, calls, last, probe, cfg, thr, twin, txt>>

NoCall ==
    [op |-> "none", ptr |-> NULL, size |-> 0, pre |-> 0, ret |-> NULL,
     trace |-> <<>>, raw |-> <<>>, recycled |-> FALSE, oom |-> FALSE,
     wasLive |-> FALSE, old |-> <<>>, buf |-> <<>>, undo |-> [is |-> FALSE, pre |-> 0]]

(* ------------------------------------------------------ GetFileArchitecture *)

\* sizeof(data): unsigned char data[0x1000]
SizeofData == 4096
IMAGE_DOS_SIGNATURE == 23117        \* 0x5A4D, "MZ"
IMAGE_NT_SIGNATURE == 17744         \* 0x00004550, "PE\0\0"
IMAGE_FILE_MACHINE_I386 == 332      \* 0x014c
IMAGE_FILE_MACHINE_AMD64 == 34404   \* 0x8664
\* Byte offsets of the fields the code reads: IMAGE_DOS_HEADER.e_magic and .e_lfanew,
\* IMAGE_NT_HEADERS.Signature and .FileHeader.Machine.
OffMagic == 0
OffLfanew == 60
OffSignature == 0
OffMachine == 4
\* Bytes from the start of IMAGE_NT_HEADERS to the end of FileHeader.Machine.
NtFieldsExtent == 6

\* Byte k (0 is the lowest) of the two's complement, little-endian form of v.
ByteOf(v, k) ==
    LET p == IF k = 0 THEN 1 ELSE IF k = 1 THEN 256 ELSE IF k = 2 THEN 65536 ELSE 16777216
    IN  (v \div p) % 256

\* An image is a byte string given by the fields it holds: e_magic at 0, e_lfanew at
\* 60, and at ntoff a signature (two 16-bit halves) and a machine type; every other
\* byte is 0. A file is an image cut at `size` bytes.
ImageByte(f, i) ==
    IF i \in OffMagic..(OffMagic + 1) THEN ByteOf(f.magic, i - OffMagic)
    ELSE IF i \in OffLfanew..(OffLfanew + 3) THEN ByteOf(f.lfanew, i - OffLfanew)
    ELSE IF i \in (f.ntoff + OffSignature)..(f.ntoff + OffSignature + 3)
         THEN ByteOf(f.sig, i - f.ntoff - OffSignature)
    ELSE IF i \in (f.ntoff + OffMachine)..(f.ntoff + OffMachine + 1)
         THEN ByteOf(f.machine, i - f.ntoff - OffMachine)
    ELSE 0

FileSizes == {0, 30, 200, 4096, 8192}
Lfanews == {-1, 0, 4, 64, 128, 195, 199, 200, 4090, 4092, 4095, 4096, 5000}
\* "MZ", or the first two bytes of a text file ("he").
Magics == {IMAGE_DOS_SIGNATURE, 25960}
Signatures == {IMAGE_NT_SIGNATURE, 0}
\* i386, AMD64, or another machine type (IMAGE_FILE_MACHINE_ARM).
Machines == {IMAGE_FILE_MACHINE_I386, IMAGE_FILE_MACHINE_AMD64, 448}

\* The files of the model: the NT header fields sit where e_lfanew says, or at 64.
Files ==
    {f \in [size : FileSizes, magic : Magics, lfanew : Lfanews, ntoff : Lfanews \cup {64},
            sig : Signatures, machine : Machines] :
        f.ntoff \in {f.lfanew, 64} /\ f.ntoff >= 0}

\* What the stack holds where ReadFile stored nothing (data is not initialised), and
\* past the end of data: zero bytes, or the header fields of an image.
Garbage ==
    {[size |-> 0, magic |-> 0, lfanew |-> 0, ntoff |-> 64, sig |-> 0, machine |-> 0]} \cup
    {g \in [size : {0}, magic : {IMAGE_DOS_SIGNATURE}, lfanew : {4, 64, 4092, 4096},
            ntoff : {4, 64, 4092, 4096}, sig : {IMAGE_NT_SIGNATURE},
            machine : {IMAGE_FILE_MACHINE_I386, IMAGE_FILE_MACHINE_AMD64}] :
        g.ntoff = g.lfanew}

\* The platform's part of a call: whether the path names a file, whether CreateFileW
\* opens it, whether ReadFile succeeds and how many bytes it stores (read, at most
\* the bytes requested), and what the stack held (g).
Min(a, b) == IF a < b THEN a ELSE b

ReadCounts(f) ==
    LET n == Min(f.size, SizeofData)
    IN  {n, n \div 2, 0}

ProbeInputs ==
    {i \in [f : Files, exists : BOOLEAN, openOk : BOOLEAN, readOk : BOOLEAN,
            read : {0, 15, 30, 100, 200, 2048, 4096}, g : Garbage] :
        /\ i.openOk => i.exists
        /\ (i.openOk /\ i.readOk) => i.read \in ReadCounts(i.f)
        /\ ~(i.openOk /\ i.readOk) => (i.read = 0 /\ i.g.magic = 0)
        /\ ~i.openOk => i.readOk
        /\ ~i.exists => i.f = CHOOSE f \in Files : TRUE}

\* data[i] after the ReadFile call: the file's byte where ReadFile stored one, else
\* whatever the stack held.
DataByte(inp, i) ==
    IF i < inp.read THEN ImageByte(inp.f, i) ELSE ImageByte(inp.g, i)

\* A WORD / a LONG read at byte offset off of data (little-endian).
U16(inp, off) == DataByte(inp, off) + 256 * DataByte(inp, off + 1)
S32(inp, off) ==
    LET b3 == DataByte(inp, off + 3)
    IN  DataByte(inp, off) + 256 * DataByte(inp, off + 1) + 65536 * DataByte(inp, off + 2)
        + 16777216 * (IF b3 >= 128 THEN b3 - 256 ELSE b3)

\* v < n with v left a signed LONG.
SizeTLess_signed(v, n) == v < n

\* (size_t)v < n for a LONG v and a DWORD n: a negative v converts to a value of at
\* least 2^31, which no n the code compares with (n <= sizeof(data)) exceeds.
SizeTLess(v, n) == v >= 0 /\ v < n

\* pnth->Signature == IMAGE_NT_SIGNATURE, a DWORD compared as its two halves.
SignatureMatches(inp, off) ==
    /\ U16(inp, off) = IMAGE_NT_SIGNATURE % 65536
    /\ U16(inp, off + 2) = IMAGE_NT_SIGNATURE \div 65536

\* The classification by pnth->FileHeader.Machine; retval stays invalid otherwise.
MachineArch_swapped(machine) ==
    IF machine = IMAGE_FILE_MACHINE_I386 THEN "x64"
    ELSE IF machine = IMAGE_FILE_MACHINE_AMD64 THEN "x32"
    ELSE "invalid"

MachineArch(machine) ==
    IF machine = IMAGE_FILE_MACHINE_I386 THEN "x32"
    ELSE IF machine = IMAGE_FILE_MACHINE_AMD64 THEN "x64"
    ELSE "invalid"

\* ParseHeaders without the comparison of pnth->Signature.
ParseHeaders_nosig(inp, readSize) ==
    LET e_magic == U16(inp, OffMagic)
        e_lfanew == S32(inp, OffLfanew)
        dosOk == e_magic = IMAGE_DOS_SIGNATURE
        inRange == dosOk /\ SizeTLess(e_lfanew, readSize)
        machine == U16(inp, e_lfanew + OffMachine)
        touched ==
            (OffMagic..(OffMagic + 1))
            \cup (IF dosOk THEN OffLfanew..(OffLfanew + 3) ELSE {})
            \cup (IF inRange THEN (e_lfanew + OffMachine)..(e_lfanew + OffMachine + 1) ELSE {})
    IN  [ret |-> IF inRange THEN MachineArch(machine) ELSE "invalid", touched |-> touched]

\* The body of if(ReadFile(...)): the result, and the offsets of data whose bytes
\* were inspected (&& does not evaluate e_lfanew when e_magic differs).
ParseHeaders(inp, readSize) ==
    LET e_magic == U16(inp, OffMagic)
        e_lfanew == S32(inp, OffLfanew)
        dosOk == e_magic = IMAGE_DOS_SIGNATURE
        inRange == dosOk /\ SizeTLess(e_lfanew, readSize)
        ntOk == inRange /\ SignatureMatches(inp, e_lfanew + OffSignature)
        machine == U16(inp, e_lfanew + OffMachine)
        touched ==
            (OffMagic..(OffMagic + 1))
            \cup (IF dosOk THEN OffLfanew..(OffLfanew + 3) ELSE {})
            \cup (IF inRange THEN (e_lfanew + OffSignature)..(e_lfanew + OffSignature + 3) ELSE {})
            \cup (IF ntOk THEN (e_lfanew + OffMachine)..(e_lfanew + OffMachine + 1) ELSE {})
    IN  [ret |-> IF ntOk THEN MachineArch(machine) ELSE "invalid", touched |-> touched]

\* What a call did: its result, the CreateFileW and ReadFile calls it made, the size
\* it requested of ReadFile, and the offsets of data it inspected.
Done(inp, ret, nRead, readSize, touched) ==
    [called |-> TRUE, inp |-> inp, ret |-> ret, nOpen |-> 1, nRead |-> nRead,
     readSize |-> readSize, touched |-> touched]

\* GetFileArchitecture with retval set to invalid as soon as the file is open.
GetFileArchitecture_earlyInvalid(inp) ==
    LET opened == inp.exists /\ inp.openOk
        fileSize == inp.f.size
        readSize == IF SizeofData > fileSize THEN fileSize ELSE SizeofData
        parsed == ParseHeaders(inp, readSize)
    IN  IF ~opened THEN Done(inp, "notfound", 0, 0, {})
        ELSE IF ~inp.readOk THEN Done(inp, "invalid", 1, readSize, {})
        ELSE Done(inp, parsed.ret, 1, readSize, parsed.touched)

\* GetFileArchitecture that checks e_lfanew against the size of the file, not
\* against the size it requested of ReadFile.
GetFileArchitecture_fileSizeCheck(inp) ==
    LET opened == inp.exists /\ inp.openOk
        fileSize == inp.f.size
        readSize == IF SizeofData > fileSize THEN fileSize ELSE SizeofData
        parsed == ParseHeaders(inp, fileSize)
    IN  IF ~opened THEN Done(inp, "notfound", 0, 0, {})
        ELSE IF ~inp.readOk THEN Done(inp, "notfound", 1, readSize, {})
        ELSE Done(inp, parsed.ret, 1, readSize, parsed.touched)

\* GetFileArchitecture that always requests sizeof(data) bytes of ReadFile.
GetFileArchitecture_fullRequest(inp) ==
    LET opened == inp.exists /\ inp.openOk
        readSize == SizeofData
        parsed == ParseHeaders(inp, readSize)
    IN  IF ~opened THEN Done(inp, "notfound", 0, 0, {})
        ELSE IF ~inp.readOk THEN Done(inp, "notfound", 1, readSize, {})
        ELSE Done(inp, parsed.ret, 1, readSize, parsed.touched)

\* arch GetFileArchitecture(const char* szFileName)
GetFileArchitecture(inp) ==
    LET opened == inp.exists /\ inp.openOk
        fileSize == inp.f.size
        readSize == IF SizeofData > fileSize THEN fileSize ELSE SizeofData
        parsed == ParseHeaders(inp, readSize)
    IN  IF ~opened THEN Done(inp, "notfound", 0, 0, {})
        ELSE IF ~inp.readOk THEN Done(inp, "notfound", 1, readSize, {})
        ELSE Done(inp, parsed.ret, 1, readSize, parsed.touched)

DoGetFileArchitecture ==
    /\ ~probe.called
    /\ probe' = GetFileArchitecture(probe.inp)
    /\ UNCHANGED <<allocVars, thr, twin, txt, cfg>>

NoProbe == [called |-> FALSE]

(* ------------------------------------------------- threads in the allocator *)

\* Threads that call the allocator, and the calls each of them makes.
NumThreads == 2
MaxThreadCalls == 2
Thread == 1..NumThreads

\* A thread between calls: pc is the statement it is at, reg the value of
\* emalloc_count it has loaded, a the pointer GlobalAlloc gave it, buf the buffer
\* it owns, cont whether the efree in progress is the one erealloc makes.
ThreadIdle ==
    [pc |-> "idle", reg |-> 0, size |-> 0, a |-> NULL, buf |-> NULL, cont |-> FALSE, done |-> 0]

NoThreads == [t \in Thread |-> ThreadIdle]

AtPc(t, pcs) == proc = "running" /\ thr[t].pc \in pcs

\* A thread enters emalloc(size), efree(buf) or erealloc(buf, size), buf being the
\* buffer it owns. emalloc and erealloc begin with ASSERT_NONZERO(size); erealloc
\* goes to efree when buf is not null, and to emalloc otherwise.
ThreadCall(t) ==
    /\ AtPc(t, {"idle"})
    /\ thr[t].done < MaxThreadCalls
    /\ \/ \E size \in Sizes :
            /\ thr[t].buf = NULL
            /\ proc' = ASSERT_NONZERO(AllocState, size).proc
            /\ thr' = [thr EXCEPT ![t].pc = "GlobalAlloc", ![t].size = size, ![t].cont = FALSE]
       \/ /\ thr[t].buf # NULL
          /\ proc' = proc
          /\ thr' = [thr EXCEPT ![t].pc = "load_dec", ![t].size = 0, ![t].cont = FALSE]
       \/ \E size \in Sizes :
            /\ thr[t].buf # NULL
            /\ proc' = ASSERT_NONZERO(AllocState, size).proc
            /\ thr' = [thr EXCEPT ![t].pc = "load_dec", ![t].size = size, ![t].cont = TRUE]
    /\ UNCHANGED <<emalloc_count, heap, nAlloc, nFree, calls, last, probe, cfg, twin, txt>>

\* emalloc up to its memset: GlobalAlloc, the exit when it fails, memset(a, 0, size).
ThreadGlobalAlloc(t) ==
    /\ AtPc(t, {"GlobalAlloc"})
    /\ \E ch \in AllocChoices(NULL, thr[t].size) :
          LET s1 == GlobalAlloc(AllocState, thr[t].size, ch)
              s  == IF s1.ret = NULL THEN FatalExit(s1) ELSE memset0(s1, s1.ret, thr[t].size)
          IN  /\ heap' = s.heap
              /\ proc' = s.proc
              /\ nAlloc' = s.nAlloc
              /\ thr' = [thr EXCEPT ![t].pc = "load_inc", ![t].a = s.ret]
    /\ UNCHANGED <<emalloc_count, nFree, calls, last, probe, cfg, twin, txt>>

\* emalloc_count++ and emalloc_count-- on a plain static int: the load of the
\* counter is one step and the store of the new value another.
ThreadLoad(t) ==
    /\ AtPc(t, {"load_inc", "load_dec"})
    /\ thr' = [thr EXCEPT ![t].reg = emalloc_count,
                          ![t].pc = IF thr[t].pc = "load_inc" THEN "store_inc" ELSE "store_dec"]
    /\ UNCHANGED <<emalloc_count, heap, proc, nAlloc, nFree, calls, last, probe, cfg, twin, txt>>

\* The store of emalloc_count++, after which emalloc returns a.
ThreadStoreInc(t) ==
    /\ AtPc(t, {"store_inc"})
    /\ emalloc_count' = thr[t].reg + 1
    /\ thr' = [thr EXCEPT ![t].pc = "idle", ![t].buf = thr[t].a, ![t].a = NULL,
                          ![t].done = @ + 1]
    /\ UNCHANGED <<heap, proc, nAlloc, nFree, calls, last, probe, cfg, twin, txt>>

\* The store of emalloc_count--, after which efree goes on to GlobalFree.
ThreadStoreDec(t) ==
    /\ AtPc(t, {"store_dec"})
    /\ emalloc_count' = thr[t].reg - 1
    /\ thr' = [thr EXCEPT ![t].pc = "GlobalFree"]
    /\ UNCHANGED <<heap, proc, nAlloc, nFree, calls, last, probe, cfg, twin, txt>>

\* GlobalFree(ptr) of efree; erealloc then goes on to emalloc(size).
ThreadGlobalFree(t) ==
    /\ AtPc(t, {"GlobalFree"})
    /\ LET s == GlobalFree(AllocState, thr[t].buf, "ignored")
       IN  /\ heap' = s.heap
           /\ proc' = s.proc
           /\ nFree' = s.nFree
    /\ thr' = [thr EXCEPT ![t].buf = NULL,
                          ![t].pc = IF thr[t].cont THEN "GlobalAlloc" ELSE "idle",
                          ![t].cont = FALSE,
                          ![t].done = IF thr[t].cont THEN @ ELSE @ + 1]
    /\ UNCHANGED <<emalloc_count, nAlloc, calls, last, probe, cfg, twin, txt>>

(* ------------------------------------------------------------ the reason tag *)

\* Reason strings the callers pass ("json:ptr" at lines 87 and 92,
\* "formathex:new_string" at line 166).
Reasons == {"json:ptr", "formathex:new_string"}

\* Paths setalloctrace is called with; alloctrace is "" until then.
TracePaths == {"alloctrace.txt"}

\* The second run's state as the allocator functions take it, with the path in
\* alloctrace.
TwinState ==
    [count |-> twin.count, heap |-> twin.heap, proc |-> twin.proc,
     nAlloc |-> twin.nAlloc, nFree |-> twin.nFree,
     trace |-> <<>>, ret |-> NULL, raw |-> <<>>, recycled |-> FALSE, oom |-> FALSE,
     alloctrace |-> twin.alloctrace]

\* efree that releases the buffer only under the reason "json:ptr".
efree_reasonChecked(s, ptr, reason, ub) ==
    IF reason = "json:ptr" THEN efree(s, ptr, ub)
    ELSE [Event(s, "dec") EXCEPT !.count = @ - 1]

\* The functions with their reason argument. No statement reads reason, and the
\* only code that reads alloctrace is the trace code, which is commented out
\* (lines 43-47 and 77-81).
emalloc_reason(s, size, reason, ch) == emalloc(s, size, ch)

efree_reason(s, ptr, reason, ub) == efree(s, ptr, ub)

erealloc_reason(s, ptr, size, reason, ch, ub) ==
    LET s0 == ASSERT_NONZERO(s, size)
        s1 == IF ptr # NULL THEN efree_reason(s0, ptr, reason, ub) ELSE s0
    IN  IF s0.proc # "running" THEN s0
        ELSE IF s1.proc # "running" THEN s1
        ELSE emalloc_reason(s1, size, reason, ch)

\* void setalloctrace(const char* file), for a path that fits alloctrace.
setalloctrace(s, file) == [s EXCEPT !.alloctrace = file]

\* The reason the first run passes to every call.
Reason1 == "json:ptr"

\* The second run after a call: s is what the call made of TwinState; reason is
\* the reason the second run passed, prevReason the one it passed to the call before.
TwinCommit(reason, s) ==
    twin' = [called |-> TRUE, count |-> s.count, heap |-> s.heap, proc |-> s.proc,
             nAlloc |-> s.nAlloc, nFree |-> s.nFree, ret |-> s.ret,
             buf |-> IF s.ret # NULL THEN s.heap[s.ret].mem ELSE <<>>,
             alloctrace |-> s.alloctrace,
             reason |-> reason, prevReason |-> twin.reason]

\* Number of allocator calls in each of the two runs.
MaxTwinCalls == 2

TwinCanCall == proc = "running" /\ calls < MaxTwinCalls

\* The same call made in both runs, with Reason1 in the first and any reason in the
\* second; the platform answers both runs alike.
TwinEmalloc ==
    /\ TwinCanCall
    /\ \E size \in Sizes : \E ch \in AllocChoices(NULL, size) : \E r2 \in Reasons :
          /\ Commit("emalloc", NULL, size, emalloc_reason(AllocState, size, Reason1, ch))
          /\ TwinCommit(r2, emalloc_reason(TwinState, size, r2, ch))

TwinEfree ==
    /\ TwinCanCall
    /\ \E ptr \in Ptr : \E ub \in UB(ptr) : \E r2 \in Reasons :
          /\ Commit("efree", ptr, 0, efree_reason(AllocState, ptr, Reason1, ub))
          /\ TwinCommit(r2, efree_reason(TwinState, ptr, r2, ub))

TwinErealloc ==
    /\ TwinCanCall
    /\ \E ptr \in Ptr : \E size \in Sizes : \E ch \in AllocChoices(ptr, size) :
       \E ub \in UB(ptr) : \E r2 \in Reasons :
          /\ Commit("erealloc", ptr, size, erealloc_reason(AllocState, ptr, size, Reason1, ch, ub))
          /\ TwinCommit(r2, erealloc_reason(TwinState, ptr, size, r2, ch, ub))

\* The second run calls setalloctrace; the first never does.
DoSetalloctrace ==
    /\ TwinCanCall
    /\ \E file \in TracePaths :
          /\ twin.alloctrace # file
          /\ twin' = [twin EXCEPT !.alloctrace = setalloctrace(TwinState, file).alloctrace]
    /\ UNCHANGED <<allocVars, probe, cfg, thr, txt>>

\* json_free without the count of efree.
json_free_uncounted(s, ptr, ub) == GlobalFree(s, ptr, ub)

\* void* json_malloc(size_t size)
json_malloc(s, size, ch) == emalloc_reason(s, size, "json:ptr", ch)

\* void json_free(void* ptr)
json_free(s, ptr, ub) == efree_reason(s, ptr, "json:ptr", ub)

\* The first run calls emalloc where the second calls json_malloc, and efree where
\* the second calls json_free.
JsonMalloc ==
    /\ CanCall
    /\ \E size \in Sizes : \E ch \in AllocChoices(NULL, size) : \E r \in Reasons :
          /\ Commit("emalloc", NULL, size, emalloc_reason(AllocState, size, r, ch))
          /\ TwinCommit("json:ptr", json_malloc(TwinState, size, ch))

JsonFree ==
    /\ CanCall
    /\ \E ptr \in Ptr : \E ub \in UB(ptr) : \E r \in Reasons :
          /\ Commit("efree", ptr, 0, efree_reason(AllocState, ptr, r, ub))
          /\ TwinCommit("json:ptr", json_free(TwinState, ptr, ub))

\* Both runs at process start.
InitTwin ==
    [called |-> TRUE, count |-> 0, heap |-> [a \in Addr |-> [st |-> "fresh", mem |-> <<>>]],
     proc |-> "running", nAlloc |-> 0, nFree |-> 0, ret |-> NULL, buf |-> <<>>,
     alloctrace |-> "", reason |-> "", prevReason |-> ""]

(* ------------------------------------------------------------ C strings *)

\* A character is its code; a C string is the sequence of the characters before
\* its terminating 0; a char array is a function on 0..(size - 1).
tolower(c) == IF c \in 65..90 THEN c + 32 ELSE c
toupper(c) == IF c \in 97..122 THEN c - 32 ELSE c
isdigit(c) == c \in 48..57
isxdigit(c) == c \in 48..57 \/ c \in 65..70 \/ c \in 97..102

\* strlen(buf + k)
RECURSIVE strlen(_, _)
strlen(buf, k) == IF buf[k] = 0 THEN 0 ELSE 1 + strlen(buf, k + 1)

\* The string at buf + k.
CStr(buf, k) == [i \in 1..strlen(buf, k) |-> buf[k + i - 1]]

\* _stricmp(a, b): the order of the two strings compared in lower case.
RECURSIVE stricmp(_, _)
stricmp(a, b) ==
    IF a = <<>> /\ b = <<>> THEN 0
    ELSE LET ca == IF a = <<>> THEN 0 ELSE tolower(Head(a))
             cb == IF b = <<>> THEN 0 ELSE tolower(Head(b))
         IN  IF ca < cb THEN -1
             ELSE IF ca > cb THEN 1
             ELSE stricmp(Tail(a), Tail(b))

\* The strings of at most n characters of S.
StringsUpTo(S, n) == UNION {[1..k -> S] : k \in 0..n}

\* A const char* argument: a null pointer or a string.
NullStr == [null |-> TRUE, s |-> <<>>]
StrArgs(S, n) == {NullStr} \cup {[null |-> FALSE, s |-> x] : x \in StringsUpTo(S, n)}

(* ---------------------------------------------------------- arraycontains *)

\* The size of temp; the header that defines deflen is scaled down to this.
deflen == 4
\* Longest cmd searched for.
MaxCmdLen == 2

\* Characters of the lists ('\1', 'a', 'A') and of the commands ('\1', 'a', 'b').
ListChars == {1, 97, 65}
CmdChars == {1, 97, 98}

\* strcpy_s(temp, cmd_list) into char temp[deflen] = "". A string that does not
\* fit calls the invalid-parameter handler; where the handler returns, temp is "".
strcpy_s(s, size) ==
    [i \in 0..(size - 1) |-> IF Len(s) < size /\ i < Len(s) THEN s[i + 1] ELSE 0]

\* for(i = 0; i < len; i++) if(temp[i] == 1) temp[i] = 0;
SplitAtOnes(temp, len) ==
    [i \in DOMAIN temp |-> IF i < len /\ temp[i] = 1 THEN 0 ELSE temp[i]]

\* The second loop from index i on: true when it returns true.
RECURSIVE ScanFrom(_, _, _, _)
ScanFrom(temp, cmd, len, i) ==
    IF i >= len THEN FALSE
    ELSE IF temp[i] = 0
         THEN IF stricmp(CStr(temp, i + 1), cmd) = 0 THEN TRUE
              ELSE ScanFrom(temp, cmd, len, i + strlen(temp, i + 1) + 1)
    ELSE ScanFrom(temp, cmd, len, i + 1)

\* bool arraycontains(const char* cmd_list, const char* cmd). handler is what the
\* invalid-parameter handler does when strcpy_s calls it: it ends the process
\* ("abort", the default) or returns ("continue").
arraycontains(cmd_list, cmd, handler) ==
    LET len  == Len(cmd_list.s)
        temp == SplitAtOnes(strcpy_s(cmd_list.s, deflen), len)
    IN  IF cmd_list.null \/ cmd.null THEN "false"
        ELSE IF len >= deflen /\ handler = "abort" THEN "crash"
        ELSE IF len >= deflen THEN "false"
        ELSE IF stricmp(CStr(temp, 0), cmd.s) = 0 THEN "true"
        ELSE IF ScanFrom(temp, cmd.s, len, strlen(temp, 0)) THEN "true"
        ELSE "false"

\* The handler matters only to a list that does not fit temp.
Handlers(cmd_list) ==
    IF ~cmd_list.null /\ Len(cmd_list.s) >= deflen THEN {"abort", "continue"} ELSE {"continue"}

ContainsInputs ==
    {i \in [cmd_list : StrArgs(ListChars, deflen + 1), cmd : StrArgs(CmdChars, MaxCmdLen),
            handler : {"abort", "continue"}] : i.handler \in Handlers(i.cmd_list)}

DoArraycontains ==
    /\ ~txt.called
    /\ txt.fn = "arraycontains"
    /\ txt' = [called |-> TRUE, fn |-> "arraycontains", inp |-> txt.inp,
               ret |-> arraycontains(txt.inp.cmd_list, txt.inp.cmd, txt.inp.handler)]
    /\ UNCHANGED <<allocVars, probe, cfg, thr, twin>>

(* ---------------------------------------------------- formathex, formatdec *)

\* Longest string handed to formathex and formatdec.
MaxStrLen == 3

\* Characters of those strings: '9', 'a', 'F', 'g', ' '.
FormatChars == {57, 97, 70, 103, 32}

\* _strupr without its conversion.
strupr_asis(s) == s

\* _strupr(string)
strupr(s) == [i \in 1..Len(s) |-> toupper(s[i])]

\* isxdigit for formathex, isdigit for formatdec.
Keeps(fn, c) == IF fn = "formathex" THEN isxdigit(c) ELSE isdigit(c)

\* sprintf(new_string() + j, "%c", c): c at j, a terminating 0 after it.
sprintf_c(buf, j, c) == [buf EXCEPT ![j] = c, ![j + 1] = 0]

\* The loop from index i on, j characters written so far: the buffer it leaves.
RECURSIVE FormatLoop(_, _, _, _, _)
FormatLoop(fn, string, buf, i, j) ==
    IF i >= Len(string) THEN buf
    ELSE IF Keeps(fn, string[i + 1])
         THEN FormatLoop(fn, string, sprintf_c(buf, j, string[i + 1]), i + 1, j + 1)
    ELSE FormatLoop(fn, string, buf, i + 1, j)

\* The string formathex / formatdec leaves in `string`, new_string being the
\* zeroed buffer of len + 1 bytes that emalloc returned (mem, a sequence).
Formatted(fn, string, mem) ==
    LET new_string == [i \in 0..(Len(mem) - 1) |-> mem[i + 1]]
    IN  CStr(FormatLoop(fn, strupr(string), new_string, 0, 0), 0)

\* void formathex(char* string) and void formatdec(char* string). new_string is
\* allocated with emalloc(len + 1) and released with efree when the function
\* returns; a failed allocation exits the process before the string is touched.
\* calls and last keep to the calls the callers themselves make.
Format(fn) ==
    /\ proc = "running"
    /\ txt.fn = fn
    /\ txt.n < 2
    /\ \E ch \in AllocChoices(NULL, Len(txt.s) + 1) :
          LET s1 == emalloc(AllocState, Len(txt.s) + 1, ch)
              s2 == IF s1.proc = "running" THEN efree(s1, s1.ret, "ignored") ELSE s1
          IN  /\ emalloc_count' = s2.count
              /\ heap' = s2.heap
              /\ proc' = s2.proc
              /\ nAlloc' = s2.nAlloc
              /\ nFree' = s2.nFree
              /\ txt' = IF s1.proc # "running" THEN txt
                        ELSE [txt EXCEPT !.called = TRUE, !.before = txt.s, !.n = @ + 1,
                                         !.s = Formatted(fn, txt.s, s1.heap[s1.ret].mem)]
    /\ UNCHANGED <<calls, last, probe, cfg, thr, twin>>

DoFormathex == Format("formathex")

DoFormatdec == Format("formatdec")

FormatInputs ==
    {[called |-> FALSE, fn |-> fn, orig |-> x, s |-> x, before |-> x, n |-> 0] :
        fn \in {"formathex", "formatdec"}, x \in StringsUpTo(FormatChars, MaxStrLen)}

(* ------------------------------------------------------------ Configuration *)

\* The default maps the constructor fills, cut down to a few keys of each: one
\* color, one bool category, two uint categories (TabOrder among them), one font,
\* one shortcut. A color is its name, a font its description, a key sequence its text.
defaultColors == ("AbstractTableViewTextColor" :> "#000000")
defaultBools == ("Miscellaneous" :> ("LoadSaveTabOrder" :> FALSE))
defaultUints ==
    ("HexDump" :> ("DefaultView" :> 0)) @@ ("TabOrder" :> (("CPUTab" :> 0) @@ ("LogTab" :> 1)))
defaultFonts == ("Log" :> "Courier,8")
defaultShortcuts == ("ActionRefresh" :> [Name |-> "Actions -> Refresh", Hotkey |-> "F5"])

\* The Configuration object c and the settings store it talks to: the maps,
\* noMoreMsgbox, the store's uint entries (uintStore, keyed by <<category, id>>) and
\* string entries (strStore, keyed by <<section, id>>); writes lists the entries
\* the call in progress has written, boxes the message boxes it has shown.

\* BridgeSettingGetUint / BridgeSettingGet: true when the store holds the entry.
BridgeSettingGetUint(c, category, id) == <<category, id>> \in DOMAIN c.uintStore
BridgeSettingGet(c, section, id) == <<section, id>> \in DOMAIN c.strStore

\* BridgeSettingSetUint / BridgeSettingSet
BridgeSettingSetUint(c, category, id, v) ==
    [c EXCEPT !.uintStore = (<<category, id>> :> v) @@ @,
              !.writes = @ \cup {<<category, id>>}]
BridgeSettingSet(c, section, id, v) ==
    [c EXCEPT !.strStore = (<<section, id>> :> v) @@ @,
              !.writes = @ \cup {<<section, id>>}]

\* QColor(setting): the color a string names, "invalid" when it names none.
QColor(setting) ==
    IF setting \in {"#FF0000", "#ff0000"} THEN "#FF0000"
    ELSE IF setting = "#000000" THEN "#000000"
    ELSE "invalid"

\* font.fromString(setting): the fonts a string describes.
FontFromStringOk(setting) == setting \in {"Courier,8", "Lucida Console,8", "Arial,8"}

\* QFontInfo(font).fixedPitch()
fixedPitch(font) == font \in {"Courier,8", "Lucida Console,8"}

\* QKeySequence(key) followed by toString(): the canonical text of a key.
QKeySequence(key) == IF key = "x" THEN "X" ELSE key

colorToConfig(c, id, color) ==
    BridgeSettingSet(c, "Colors", id, IF color = "transparent" THEN "#XXXXXX" ELSE color)
boolToConfig(c, category, id, b) == BridgeSettingSetUint(c, category, id, IF b THEN 1 ELSE 0)
uintToConfig(c, category, id, i) == BridgeSettingSetUint(c, category, id, i)
fontToConfig(c, id, font) == BridgeSettingSet(c, "Fonts", id, font)
shortcutToConfig(c, id, shortcut) ==
    BridgeSettingSet(c, "Shortcuts", id, IF shortcut # "" THEN shortcut ELSE "NOT_SET")

\* The *FromConfig functions: [c, ret], c being the object after the call (a default
\* is written to the store when the entry is missing or unusable).
colorFromConfig(c, id) ==
    LET setting == c.strStore[<<"Colors", id>>]
        dflt == IF id \in DOMAIN defaultColors
                THEN [c |-> colorToConfig(c, id, defaultColors[id]), ret |-> defaultColors[id]]
                ELSE [c |-> c, ret |-> "#000000"]
    IN  IF ~BridgeSettingGet(c, "Colors", id) THEN dflt
        ELSE IF setting \in {"#xxxxxx", "#XXXXXX"} THEN [c |-> c, ret |-> "transparent"]
        ELSE IF QColor(setting) = "invalid" THEN dflt
        ELSE [c |-> c, ret |-> QColor(setting)]

boolFromConfig(c, category, id) ==
    IF ~BridgeSettingGetUint(c, category, id)
    THEN IF category \in DOMAIN defaultBools /\ id \in DOMAIN defaultBools[category]
         THEN [c |-> boolToConfig(c, category, id, defaultBools[category][id]),
               ret |-> defaultBools[category][id]]
         ELSE [c |-> c, ret |-> FALSE]
    ELSE [c |-> c, ret |-> (c.uintStore[<<category, id>>] # 0)]

uintFromConfig(c, category, id) ==
    IF ~BridgeSettingGetUint(c, category, id)
    THEN IF category \in DOMAIN defaultUints /\ id \in DOMAIN defaultUints[category]
         THEN [c |-> uintToConfig(c, category, id, defaultUints[category][id]),
               ret |-> defaultUints[category][id]]
         ELSE [c |-> c, ret |-> 0]
    ELSE [c |-> c, ret |-> c.uintStore[<<category, id>>]]

fontFromConfig(c, id) ==
    LET dflt == IF id \in DOMAIN defaultFonts
                THEN [c |-> fontToConfig(c, id, defaultFonts[id]), ret |-> defaultFonts[id]]
                ELSE IF id = "Application" THEN [c |-> c, ret |-> "QApplication::font"]
                ELSE [c |-> c, ret |-> "Lucida Console,8"]
    IN  IF ~BridgeSettingGet(c, "Fonts", id) THEN dflt
        ELSE IF ~FontFromStringOk(c.strStore[<<"Fonts", id>>]) THEN dflt
        ELSE [c |-> c, ret |-> c.strStore[<<"Fonts", id>>]]

shortcutFromConfig(c, id) ==
    IF BridgeSettingGet(c, "Shortcuts", id) THEN c.strStore[<<"Shortcuts", id>>] ELSE ""

\* The <<category, id>> pairs of a two-level map.
KeysOf(m) == UNION {{<<category, id>> : id \in DOMAIN m[category]} : category \in DOMAIN m}

\* void Configuration::readColors() and the other read* functions: the map is
\* set to the default map, then each of its entries is read from the store.
readColors(c) ==
    LET RECURSIVE loop(_, _)
        loop(s, ids) ==
            IF ids = {} THEN s
            ELSE LET id == CHOOSE x \in ids : TRUE
                     r  == colorFromConfig(s, id)
                 IN  loop([r.c EXCEPT !.Colors[id] = r.ret], ids \ {id})
    IN  loop([c EXCEPT !.Colors = defaultColors], DOMAIN defaultColors)

readBools(c) ==
    LET RECURSIVE loop(_, _)
        loop(s, keys) ==
            IF keys = {} THEN s
            ELSE LET k == CHOOSE x \in keys : TRUE
                     r == boolFromConfig(s, k[1], k[2])
                 IN  loop([r.c EXCEPT !.Bools[k[1]][k[2]] = r.ret], keys \ {k})
    IN  loop([c EXCEPT !.Bools = defaultBools], KeysOf(defaultBools))

readUints(c) ==
    LET RECURSIVE loop(_, _)
        loop(s, keys) ==
            IF keys = {} THEN s
            ELSE LET k == CHOOSE x \in keys : TRUE
                     r == uintFromConfig(s, k[1], k[2])
                 IN  loop([r.c EXCEPT !.Uints[k[1]][k[2]] = r.ret], keys \ {k})
    IN  loop([c EXCEPT !.Uints = defaultUints], KeysOf(defaultUints))

readFonts(c) ==
    LET RECURSIVE loop(_, _)
        loop(s, ids) ==
            IF ids = {} THEN s
            ELSE LET id == CHOOSE x \in ids : TRUE
                     r  == fontFromConfig(s, id)
                     s1 == IF id = "Application" \/ fixedPitch(r.ret)
                           THEN [r.c EXCEPT !.Fonts[id] = r.ret] ELSE r.c
                 IN  loop(s1, ids \ {id})
    IN  loop([c EXCEPT !.Fonts = defaultFonts], DOMAIN defaultFonts)

readShortcuts(c) ==
    LET RECURSIVE loop(_, _)
        loop(s, ids) ==
            IF ids = {} THEN s
            ELSE LET id  == CHOOSE x \in ids : TRUE
                     key == shortcutFromConfig(s, id)
                     s1  == IF key = "" THEN s
                            ELSE IF key = "NOT_SET" THEN [s EXCEPT !.Shortcuts[id].Hotkey = ""]
                            ELSE [s EXCEPT !.Shortcuts[id].Hotkey = QKeySequence(key)]
                 IN  loop(s1, ids \ {id})
    IN  loop([c EXCEPT !.Shortcuts = defaultShortcuts], DOMAIN defaultShortcuts)

\* void Configuration::load()
load(c) == readShortcuts(readFonts(readUints(readBools(readColors(c)))))

\* QMessageBox msg(Warning, "NOT FOUND IN CONFIG!", text, Retry | Cancel);
\* if(msg.exec() == QMessageBox::Cancel) noMoreMsgbox = true;   ans is the user's answer.
MsgBox(c, text, ans) ==
    [c EXCEPT !.boxes = Append(@, [text |-> text, answer |-> ans]),
              !.noMoreMsgbox = IF ans = "Cancel" THEN TRUE ELSE @]

\* The not-found path shown without looking at noMoreMsgbox.
NotFound_nolatch(c, text, ans, ret) == [c |-> MsgBox(c, text, ans), ret |-> ret]

\* The path every get* and set* takes for a key that is not in its map: the
\* fallback value at once when noMoreMsgbox is set, after the message box otherwise.
NotFound(c, text, ans, ret) ==
    IF c.noMoreMsgbox THEN [c |-> c, ret |-> ret]
    ELSE [c |-> MsgBox(c, text, ans), ret |-> ret]

\* const QColor Configuration::getColor(const QString id) const
getColor(c, id, ans) ==
    IF id \in DOMAIN c.Colors THEN [c |-> c, ret |-> c.Colors[id]]
    ELSE NotFound(c, <<id>>, ans, "#000000")

\* const bool Configuration::getBool(const QString category, const QString id) const
getBool(c, category, id, ans) ==
    IF category \in DOMAIN c.Bools
    THEN IF id \in DOMAIN c.Bools[category] THEN [c |-> c, ret |-> c.Bools[category][id]]
         ELSE NotFound(c, <<category, id>>, ans, FALSE)
    ELSE NotFound(c, <<category>>, ans, FALSE)

\* void Configuration::setBool(const QString category, const QString id, const bool b)
setBool(c, category, id, b, ans) ==
    IF category \in DOMAIN c.Bools
    THEN IF id \in DOMAIN c.Bools[category]
         THEN [c |-> [c EXCEPT !.Bools[category][id] = b], ret |-> "void"]
         ELSE NotFound(c, <<category, id>>, ans, "void")
    ELSE NotFound(c, <<category>>, ans, "void")

\* const duint Configuration::getUint(const QString category, const QString id) const
getUint(c, category, id, ans) ==
    IF category \in DOMAIN c.Uints
    THEN IF id \in DOMAIN c.Uints[category] THEN [c |-> c, ret |-> c.Uints[category][id]]
         ELSE NotFound(c, <<category, id>>, ans, 0)
    ELSE NotFound(c, <<category>>, ans, 0)

\* setUint that stores the value under an id its category does not have.
setUint_inserting(c, category, id, i, ans) ==
    IF category \in DOMAIN c.Uints
    THEN [c |-> [c EXCEPT !.Uints[category] = (id :> i) @@ @], ret |-> "void"]
    ELSE NotFound(c, <<category>>, ans, "void")

\* void Configuration::setUint(const QString category, const QString id, const duint i)
setUint(c, category, id, i, ans) ==
    IF category \in DOMAIN c.Uints
    THEN IF id \in DOMAIN c.Uints[category]
         THEN [c |-> [c EXCEPT !.Uints[category][id] = i], ret |-> "void"]
         ELSE NotFound(c, <<category, id>>, ans, "void")
    ELSE NotFound(c, <<category>>, ans, "void")

\* const QFont Configuration::getFont(const QString id) const
getFont(c, id, ans) ==
    IF id \in DOMAIN c.Fonts THEN [c |-> c, ret |-> c.Fonts[id]]
    ELSE NotFound(c, <<id>>, ans, "Lucida Console,8")

\* const Shortcut Configuration::getShortcut(const QString key_id) const
getShortcut(c, key_id, ans) ==
    IF key_id \in DOMAIN c.Shortcuts THEN [c |-> c, ret |-> c.Shortcuts[key_id]]
    ELSE NotFound(c, <<key_id>>, ans, [Name |-> "", Hotkey |-> ""])

\* void Configuration::setShortcut(const QString key_id, const QKeySequence key_sequence)
setShortcut(c, key_id, key_sequence, ans) ==
    IF key_id \in DOMAIN c.Shortcuts
    THEN [c |-> [c EXCEPT !.Shortcuts[key_id].Hotkey = key_sequence], ret |-> "void"]
    ELSE NotFound(c, <<key_id>>, ans, "void")

\* ConfigBool(category, id): the macro of Configuration.h, Config()->getBool(category, id).
ConfigBool(c, category, id, ans) == getBool(c, category, id, ans)

\* void Configuration::writeColors() and the other write* functions: each entry
\* of the map is written to the store.
writeColors(c) ==
    LET RECURSIVE loop(_, _)
        loop(s, ids) ==
            IF ids = {} THEN s
            ELSE LET id == CHOOSE x \in ids : TRUE
                 IN  loop(colorToConfig(s, id, s.Colors[id]), ids \ {id})
    IN  loop(c, DOMAIN c.Colors)

writeBools(c) ==
    LET RECURSIVE loop(_, _)
        loop(s, keys) ==
            IF keys = {} THEN s
            ELSE LET k == CHOOSE x \in keys : TRUE
                 IN  loop(boolToConfig(s, k[1], k[2], s.Bools[k[1]][k[2]]), keys \ {k})
    IN  loop(c, KeysOf(c.Bools))

\* writeUints that writes every entry.
writeUints_all(c, ans) ==
    LET b == ConfigBool(c, "Miscellaneous", "LoadSaveTabOrder", ans)
        RECURSIVE loop(_, _)
        loop(s, keys) ==
            IF keys = {} THEN s
            ELSE LET k == CHOOSE x \in keys : TRUE
                 IN  loop(uintToConfig(s, k[1], k[2], s.Uints[k[1]][k[2]]), keys \ {k})
    IN  loop(b.c, KeysOf(b.c.Uints))

\* void Configuration::writeUints(): an entry of TabOrder that the store already
\* holds is skipped when bSaveLoadTabOrder is false.
writeUints(c, ans) ==
    LET b == ConfigBool(c, "Miscellaneous", "LoadSaveTabOrder", ans)
        bSaveLoadTabOrder == b.ret
        RECURSIVE loop(_, _)
        loop(s, keys) ==
            IF keys = {} THEN s
            ELSE LET k  == CHOOSE x \in keys : TRUE
                     s1 == IF /\ ~bSaveLoadTabOrder
                              /\ k[1] = "TabOrder"
                              /\ BridgeSettingGetUint(s, k[1], k[2])
                           THEN s
                           ELSE uintToConfig(s, k[1], k[2], s.Uints[k[1]][k[2]])
                 IN  loop(s1, keys \ {k})
    IN  loop(b.c, KeysOf(b.c.Uints))

writeFonts(c) ==
    LET RECURSIVE loop(_, _)
        loop(s, ids) ==
            IF ids = {} THEN s
            ELSE LET id == CHOOSE x \in ids : TRUE
                 IN  loop(fontToConfig(s, id, s.Fonts[id]), ids \ {id})
    IN  loop(c, DOMAIN c.Fonts)

writeShortcuts(c) ==
    LET RECURSIVE loop(_, _)
        loop(s, ids) ==
            IF ids = {} THEN s
            ELSE LET id == CHOOSE x \in ids : TRUE
                 IN  loop(shortcutToConfig(s, id, s.Shortcuts[id].Hotkey), ids \ {id})
    IN  loop(c, DOMAIN c.Shortcuts)

\* void Configuration::save()
save(c, ans) == writeShortcuts(writeFonts(writeUints(writeBools(writeColors(c)), ans)))

\* Number of calls made on the Configuration object.
MaxCfgCalls == 2

\* Configuration::Configuration() : QObject(), noMoreMsgbox(false): the default
\* maps, Shortcuts = defaultShortcuts, load().
Configuration(uintStore, strStore) ==
    load([called |-> TRUE, Colors |-> <<>>, Bools |-> <<>>, Uints |-> <<>>, Fonts |-> <<>>,
          Shortcuts |-> defaultShortcuts, noMoreMsgbox |-> FALSE,
          uintStore |-> uintStore, strStore |-> strStore,
          writes |-> {}, boxes |-> <<>>, n |-> 0,
          op |-> "Configuration", args |-> <<>>, ret |-> "void"])

\* The answers to a message box.
Answers == {"Retry", "Cancel"}

CfgCanCall == cfg.called /\ cfg.n < MaxCfgCalls

\* The object as a call finds it.
CfgState == [cfg EXCEPT !.writes = {}, !.boxes = <<>>]

\* The object after a call that returned r.
CfgCommit(op, args, r) ==
    /\ cfg' = [r.c EXCEPT !.op = op, !.args = args, !.ret = r.ret, !.n = cfg.n + 1]
    /\ UNCHANGED <<allocVars, probe, thr, twin, txt>>

CfgGetColor ==
    /\ CfgCanCall
    /\ \E id \in {"AbstractTableViewTextColor", "NoSuchId"} : \E ans \in Answers :
          CfgCommit("getColor", <<id>>, getColor(CfgState, id, ans))

CfgGetBool ==
    /\ CfgCanCall
    /\ \E category \in {"Miscellaneous", "NoSuchCategory"} :
       \E id \in {"LoadSaveTabOrder", "NoSuchId"} :
       \E ans \in Answers :
          CfgCommit("getBool", <<category, id>>, getBool(CfgState, category, id, ans))

CfgSetBool ==
    /\ CfgCanCall
    /\ \E category \in {"Miscellaneous", "NoSuchCategory"} :
       \E id \in {"LoadSaveTabOrder", "NoSuchId"} :
       \E b \in BOOLEAN :
       \E ans \in Answers :
          CfgCommit("setBool", <<category, id>>, setBool(CfgState, category, id, b, ans))

CfgGetUint ==
    /\ CfgCanCall
    /\ \E category \in {"HexDump", "TabOrder", "NoSuchCategory"} :
       \E id \in {"DefaultView", "CPUTab", "NoSuchId"} :
       \E ans \in Answers :
          CfgCommit("getUint", <<category, id>>, getUint(CfgState, category, id, ans))

CfgSetUint ==
    /\ CfgCanCall
    /\ \E category \in {"HexDump", "TabOrder", "NoSuchCategory"} :
       \E id \in {"DefaultView", "CPUTab", "NoSuchId"} :
       \E i \in {0, 7} : \E ans \in Answers :
          CfgCommit("setUint", <<category, id>>, setUint(CfgState, category, id, i, ans))

CfgGetFont ==
    /\ CfgCanCall
    /\ \E id \in {"Log", "NoSuchId"} : \E ans \in Answers :
          CfgCommit("getFont", <<id>>, getFont(CfgState, id, ans))

CfgGetShortcut ==
    /\ CfgCanCall
    /\ \E id \in {"ActionRefresh", "NoSuchId"} : \E ans \in Answers :
          CfgCommit("getShortcut", <<id>>, getShortcut(CfgState, id, ans))

CfgSetShortcut ==
    /\ CfgCanCall
    /\ \E id \in {"ActionRefresh", "NoSuchId"} : \E k \in {"", "X"} : \E ans \in Answers :
          CfgCommit("setShortcut", <<id>>, setShortcut(CfgState, id, k, ans))

CfgLoad ==
    /\ CfgCanCall
    /\ CfgCommit("load", <<>>, [c |-> load(CfgState), ret |-> "void"])

CfgSave ==
    /\ CfgCanCall
    /\ \E ans \in Answers :
          CfgCommit("save", <<>>, [c |-> save(CfgState, ans), ret |-> "void"])

\* The settings store is outside the object: an entry of it goes away (the
\* settings file is edited or replaced) between two calls.
SettingRemoved ==
    /\ cfg.called
    /\ \E k \in DOMAIN cfg.uintStore :
          /\ k[1] = "TabOrder"
          /\ cfg' = [cfg EXCEPT !.uintStore = [x \in DOMAIN @ \ {k} |-> @[x]],
                                !.op = "removed", !.args = k, !.ret = "void",
                                !.writes = {}, !.boxes = <<>>]
    /\ UNCHANGED <<allocVars, probe, thr, twin, txt>>

NoTwin == [called |-> FALSE]

NoText == [called |-> FALSE]

NoConfig == [called |-> FALSE]

InitAlloc ==
    /\ emalloc_count = 0
    /\ heap = [a \in Addr |-> [st |-> "fresh", mem |-> <<>>]]
    /\ proc = "running"
    /\ nAlloc = 0
    /\ nFree = 0
    /\ calls = 0
    /\ last = NoCall

Init ==
    /\ InitAlloc
    /\ probe = NoProbe
    /\ thr = NoThreads
    /\ twin = NoTwin
    /\ txt = NoText
    /\ cfg = NoConfig

NextAlloc == DoEmalloc \/ DoEfree \/ DoErealloc \/ DoWrite

SpecAlloc == Init /\ [][NextAlloc]_vars

\* A GetFileArchitecture call on each input of the model.
InitProbe ==
    /\ InitAlloc
    /\ probe \in {[called |-> FALSE, inp |-> i] : i \in ProbeInputs}
    /\ thr = NoThreads
    /\ twin = NoTwin
    /\ txt = NoText
    /\ cfg = NoConfig

NextProbe == DoGetFileArchitecture

SpecProbe == InitProbe /\ [][NextProbe]_vars

\* Threads calling the allocator, their steps interleaved.
NextThreads ==
    \E t \in Thread :
        \/ ThreadCall(t)
        \/ ThreadGlobalAlloc(t)
        \/ ThreadLoad(t)
        \/ ThreadStoreInc(t)
        \/ ThreadStoreDec(t)
        \/ ThreadGlobalFree(t)

SpecThreads == Init /\ [][NextThreads]_vars

\* Two runs of the same calls that differ in the reasons passed and in setalloctrace.
InitReason ==
    /\ InitAlloc
    /\ probe = NoProbe
    /\ thr = NoThreads
    /\ twin = InitTwin
    /\ txt = NoText
    /\ cfg = NoConfig

NextReason == TwinEmalloc \/ TwinEfree \/ TwinErealloc \/ DoSetalloctrace

SpecReason == InitReason /\ [][NextReason]_vars

\* A run of emalloc / efree calls beside the same run made with json_malloc / json_free.
NextJson == JsonMalloc \/ JsonFree

SpecJson == InitReason /\ [][NextJson]_vars

\* A Configuration object constructed over a settings store that is empty, holds
\* a value for every entry, or holds values the read* functions do not accept.
InitConfig ==
    /\ InitAlloc
    /\ probe = NoProbe
    /\ thr = NoThreads
    /\ twin = NoTwin
    /\ txt = NoText
    /\ \E uintStore \in
          {<<>>,
           (<<"Miscellaneous", "LoadSaveTabOrder">> :> 1) @@ (<<"HexDump", "DefaultView">> :> 7)
              @@ (<<"TabOrder", "CPUTab">> :> 7) @@ (<<"TabOrder", "LogTab">> :> 0),
           (<<"Miscellaneous", "LoadSaveTabOrder">> :> 0) @@ (<<"TabOrder", "CPUTab">> :> 7)} :
       \E strStore \in
          {<<>>,
           (<<"Colors", "AbstractTableViewTextColor">> :> "#ff0000")
              @@ (<<"Fonts", "Log">> :> "Arial,8") @@ (<<"Shortcuts", "ActionRefresh">> :> "x"),
           (<<"Colors", "AbstractTableViewTextColor">> :> "#xxxxxx")
              @@ (<<"Fonts", "Log">> :> "junk") @@ (<<"Shortcuts", "ActionRefresh">> :> "NOT_SET")} :
          cfg = Configuration(uintStore, strStore)

NextConfig ==
    \/ CfgGetColor \/ CfgGetBool \/ CfgSetBool \/ CfgGetUint \/ CfgSetUint
    \/ CfgGetFont \/ CfgGetShortcut \/ CfgSetShortcut \/ CfgLoad \/ CfgSave
    \/ SettingRemoved

SpecConfig == InitConfig /\ [][NextConfig]_vars

\* An arraycontains call on each input of the model.
InitContains ==
    /\ InitAlloc
    /\ probe = NoProbe
    /\ thr = NoThreads
    /\ twin = NoTwin
    /\ txt \in {[called |-> FALSE, fn |-> "arraycontains", inp |-> i] : i \in ContainsInputs}
    /\ cfg = NoConfig

NextContains == DoArraycontains

SpecContains == InitContains /\ [][NextContains]_vars

\* formathex or formatdec applied, up to twice, to each string of the model.
InitFormat ==
    /\ InitAlloc
    /\ probe = NoProbe
    /\ thr = NoThreads
    /\ twin = NoTwin
    /\ txt \in FormatInputs
    /\ cfg = NoConfig

NextFormat == DoFormathex \/ DoFormatdec

SpecFormat == InitFormat /\ [][NextFormat]_vars

(* ------------------------------------------------------------ the claims *)

Has(tr, e) == \E i \in 1..Len(tr) : tr[i] = e
\* The place of the first e in tr (0 when there is none).
First(tr, e) ==
    IF Has(tr, e) THEN CHOOSE i \in 1..Len(tr) : tr[i] = e /\ \A j \in 1..(i-1) : tr[j] # e
    ELSE 0
Before(tr, e, f) == Has(tr, e) /\ Has(tr, f) /\ First(tr, e) < First(tr, f)

AllocOps == {"emalloc", "erealloc"}

\* C1: after any sequence of emalloc, efree and erealloc calls from a counter of 0,
\* memleaks() is the number of allocations that succeeded minus the number of
\* releases (those inside erealloc counted); with no release it is the number of
\* allocations.
C1_CountIsAllocsMinusFrees ==
    /\ memleaks = nAlloc - nFree
    /\ nFree = 0 => memleaks = nAlloc

C1_Witness ==
    /\ last.op = "erealloc" /\ last.wasLive /\ last.ret # NULL
    /\ nAlloc >= 2 /\ nFree >= 1

\* C2: efree of the buffer that the emalloc call just before returned puts
\* memleaks() back to its value before that emalloc call.
C2_AllocThenFreeRestores ==
    (last.op = "efree" /\ last.undo.is) => memleaks = last.undo.pre

C2_Witness ==
    /\ last.op = "efree" /\ last.undo.is /\ last.wasLive
    /\ last.undo.pre # 0

\* C3: erealloc(NULL, n) that returns changes memleaks() by +1, as emalloc(n) does;
\* erealloc(buf, n) with buf not null that returns leaves memleaks() unchanged.
C3_ReallocDelta ==
    /\ (last.op = "emalloc" /\ last.ret # NULL) => memleaks = last.pre + 1
    /\ (last.op = "erealloc" /\ last.ret # NULL /\ last.ptr = NULL)
          => memleaks = last.pre + 1
    /\ (last.op = "erealloc" /\ last.ret # NULL /\ last.ptr # NULL)
          => memleaks = last.pre

C3_Witness ==
    /\ last.op = "erealloc" /\ last.ret # NULL /\ last.wasLive
    /\ last.ret # last.ptr

\* C4: the buffer emalloc returns has exactly `size` bytes, all zero at the
\* return, whatever the memory GlobalAlloc handed out held.
C4_ReturnedBufferZeroed ==
    (last.op = "emalloc" /\ last.ret # NULL) =>
        /\ Len(last.buf) = last.size
        /\ \A i \in 1..last.size : last.buf[i] = 0

C4_Witness ==
    /\ last.op = "emalloc" /\ last.ret # NULL /\ last.recycled
    /\ last.size = MaxSize
    /\ \A i \in 1..last.size : last.raw[i] # 0

\* C5: erealloc(buf, n) with buf not null decrements the counter and returns buf
\* to the platform before it asks the platform for the new buffer, and the
\* buffer it returns is n zero bytes: nothing of the old contents is kept.
C5_ReallocReleasesFirst ==
    (last.op = "erealloc" /\ last.ptr # NULL /\ Has(last.trace, "GlobalAlloc")) =>
        /\ Before(last.trace, "dec", "GlobalAlloc")
        /\ Before(last.trace, "GlobalFree", "GlobalAlloc")
        /\ (last.wasLive /\ last.ret # last.ptr) => heap[last.ptr].st = "freed"
        /\ last.ret # NULL => last.buf = Zeros(last.size)

C5_Witness ==
    /\ last.op = "erealloc" /\ last.wasLive /\ last.ret = last.ptr
    /\ Len(last.old) = last.size /\ last.raw = last.old
    /\ \A i \in 1..last.size : last.old[i] # 0

\* C6: when GlobalAlloc cannot satisfy the request, emalloc shows the message,
\* then exits the process; it does not return and does not increment the counter.
\* A call that returns, returns a valid pointer that is not null.
C6_AllocFailureIsFatal ==
    last.op \in AllocOps =>
        /\ last.oom =>
              /\ proc = "exited"
              /\ Before(last.trace, "GlobalAlloc", "MessageBoxW")
              /\ Before(last.trace, "MessageBoxW", "ExitProcess")
              /\ ~Has(last.trace, "return")
              /\ ~Has(last.trace, "inc")
              /\ memleaks = last.pre - (IF last.ptr # NULL THEN 1 ELSE 0)
        /\ Has(last.trace, "return") =>
              /\ ~last.oom
              /\ last.ret \in Addr
              /\ Len(last.buf) = last.size

C6_Witness ==
    /\ last.op = "emalloc" /\ last.oom /\ proc = "exited"
    /\ \A a \in Addr : heap[a].st = "live"

\* C7: every efree call decrements the counter by exactly 1, also for a null
\* pointer and for a buffer already released; nothing clamps the counter, so
\* memleaks() goes negative when there are more releases than allocations.
C7_FreeAlwaysDecrements ==
    last.op = "efree" => memleaks = last.pre - 1

C7_Witness ==
    /\ last.op = "efree" /\ last.ptr # NULL /\ heap[last.ptr].st = "freed"
    /\ ~last.wasLive /\ memleaks < 0

\* C8: emalloc(0) and erealloc(p, 0) trip the assertion before any other effect:
\* the counter is unchanged, no buffer is allocated and p is not released.
C8_ZeroSizeAsserted ==
    [][(calls' = calls + 1 /\ last'.op \in AllocOps /\ last'.size = 0) =>
          /\ proc' = "asserted"
          /\ last'.trace = <<"assert">>
          /\ last'.ret = NULL
          /\ emalloc_count' = emalloc_count
          /\ heap' = heap
          /\ nAlloc' = nAlloc
          /\ nFree' = nFree]_vars

C8_Witness ==
    /\ last.op = "erealloc" /\ last.size = 0 /\ last.wasLive
    /\ proc = "asserted" /\ heap[last.ptr].st = "live"
    /\ \E i \in 1..Len(last.old) : last.old[i] # 0

Opened == probe.called /\ probe.inp.exists /\ probe.inp.openOk
ReadDone == Opened /\ probe.inp.readOk

\* C9: GetFileArchitecture returns notfound exactly when the open fails or the read
\* fails; a path that names no file gives notfound, and a call whose open and read
\* both succeed never does.
C9_NotFoundIffOpenOrReadFails ==
    probe.called =>
        /\ (probe.ret = "notfound") <=> ~ReadDone
        /\ ~probe.inp.exists => probe.ret = "notfound"
        /\ ReadDone => probe.ret \in {"invalid", "x32", "x64"}

C9_Witness ==
    /\ Opened /\ ~probe.inp.readOk /\ probe.nRead = 1
    /\ probe.ret = "notfound"

\* A file that is a PE image for machine m: the DOS magic, e_lfanew pointing past
\* the DOS header at an NT signature followed by machine m, all inside the file.
WellFormedPE(f, m) ==
    /\ f.magic = IMAGE_DOS_SIGNATURE
    /\ f.lfanew = f.ntoff /\ f.lfanew >= OffLfanew + 4
    /\ f.sig = IMAGE_NT_SIGNATURE
    /\ f.machine = m
    /\ f.lfanew + NtFieldsExtent <= f.size

FullRead == ReadDone /\ probe.inp.read = Min(probe.inp.f.size, SizeofData)

\* C10 as stated: every well-formed PE image that is opened and read is classified by
\* its machine type, x32 for i386 and x64 for AMD64.
C10_Original ==
    FullRead =>
        /\ WellFormedPE(probe.inp.f, IMAGE_FILE_MACHINE_I386) => probe.ret = "x32"
        /\ WellFormedPE(probe.inp.f, IMAGE_FILE_MACHINE_AMD64) => probe.ret = "x64"

\* C10, amended: a well-formed PE image whose NT signature and machine field lie
\* within the bytes the read returned (so within the first 4096 bytes) is classified
\* x32 for i386 and x64 for AMD64, whatever the rest of the buffer held.
HeaderWasRead == probe.inp.f.lfanew + NtFieldsExtent <= probe.inp.read

C10_PEWithinReadBytes ==
    (ReadDone /\ HeaderWasRead) =>
        /\ WellFormedPE(probe.inp.f, IMAGE_FILE_MACHINE_I386) => probe.ret = "x32"
        /\ WellFormedPE(probe.inp.f, IMAGE_FILE_MACHINE_AMD64) => probe.ret = "x64"

C10_Witness ==
    /\ ReadDone /\ HeaderWasRead
    /\ WellFormedPE(probe.inp.f, IMAGE_FILE_MACHINE_AMD64)
    /\ probe.inp.f.lfanew + NtFieldsExtent = SizeofData
    /\ probe.inp.g.machine = IMAGE_FILE_MACHINE_I386
    /\ probe.ret = "x64"

\* The header fields as the code reads them from data in the last call.
DataMagicOk == U16(probe.inp, OffMagic) = IMAGE_DOS_SIGNATURE
DataLfanew == S32(probe.inp, OffLfanew)
DataInRange == DataMagicOk /\ SizeTLess(DataLfanew, probe.readSize)
DataNtOk == DataInRange /\ SignatureMatches(probe.inp, DataLfanew + OffSignature)
DataMachine == U16(probe.inp, DataLfanew + OffMachine)

\* The file read whole, as an input of the byte readers.
Whole(f) == [f |-> f, read |-> f.size, g |-> f]

\* A file that holds a PE header chain: a DOS header with the magic, whose e_lfanew
\* points inside the file at an NT signature followed by a machine field.
IsPEImage(f) ==
    /\ f.size >= OffLfanew + 4
    /\ f.magic = IMAGE_DOS_SIGNATURE
    /\ f.lfanew >= 0 /\ f.lfanew + NtFieldsExtent <= f.size
    /\ SignatureMatches(Whole(f), f.lfanew + OffSignature)

\* C11: a readable zero-byte file, and any readable file that is not a PE image
\* (files shorter than a DOS header included), is classified invalid.
C11_NonPEIsInvalid ==
    (FullRead /\ (probe.inp.f.size = 0 \/ ~IsPEImage(probe.inp.f))) =>
        probe.ret = "invalid"

\* The DOS header of the file is among the bytes the read returned.
DosHeaderWasRead == ReadDone /\ probe.inp.read >= OffLfanew + 4

\* C12: a file read with its DOS header, whose magic is valid and whose e_lfanew is
\* 4096 or more, is classified invalid after one read, also when the file holds a
\* valid NT header for i386 or AMD64 at that offset.
C12_LfanewPastWindowIsInvalid ==
    (DosHeaderWasRead /\ probe.inp.f.magic = IMAGE_DOS_SIGNATURE
        /\ probe.inp.f.lfanew >= SizeofData) =>
        /\ probe.ret = "invalid"
        /\ probe.nRead = 1

C12_Witness ==
    /\ FullRead /\ DosHeaderWasRead
    /\ probe.inp.f.lfanew = SizeofData
    /\ WellFormedPE(probe.inp.f, IMAGE_FILE_MACHINE_I386)
    /\ probe.inp.g.ntoff = SizeofData
    /\ probe.ret = "invalid"

\* C13: whenever e_lfanew, as an unsigned size, is greater than or equal to the
\* number of bytes the read returned, the result is invalid.
C13_BoundsCheckAgainstBytesRead ==
    (ReadDone /\ DataMagicOk /\ ~SizeTLess(DataLfanew, probe.inp.read)) =>
        probe.ret = "invalid"

MachineResult(m) ==
    IF m = IMAGE_FILE_MACHINE_I386 THEN "x32"
    ELSE IF m = IMAGE_FILE_MACHINE_AMD64 THEN "x64"
    ELSE "invalid"

\* C14: x32 or x64 is returned only if the DOS magic matched, then e_lfanew passed
\* the bounds check, then the signature at e_lfanew was the NT signature; given
\* those the machine field decides (i386: x32, AMD64: x64, other: invalid). A file
\* read with a wrong DOS magic, or read with a wrong NT signature at its e_lfanew,
\* is invalid whatever its machine field.
C14_ChecksInOrder ==
    ReadDone =>
        /\ probe.ret \in {"x32", "x64"} => (DataMagicOk /\ DataInRange /\ DataNtOk)
        /\ DataNtOk => probe.ret = MachineResult(DataMachine)
        /\ ~DataMagicOk => probe.touched = OffMagic..(OffMagic + 1)
        /\ (DataMagicOk /\ ~DataInRange) =>
              probe.touched = (OffMagic..(OffMagic + 1)) \cup (OffLfanew..(OffLfanew + 3))
        /\ (DataInRange /\ ~DataNtOk) =>
              (DataLfanew + OffMachine) \notin probe.touched
        /\ (probe.inp.read >= OffMagic + 2 /\ probe.inp.f.magic # IMAGE_DOS_SIGNATURE)
              => probe.ret = "invalid"
        /\ (DosHeaderWasRead /\ probe.inp.f.lfanew >= 0
            /\ probe.inp.f.lfanew + OffSignature + 4 <= probe.inp.read
            /\ ~SignatureMatches(Whole(probe.inp.f), probe.inp.f.lfanew + OffSignature))
              => probe.ret = "invalid"

C14_Witness ==
    /\ DosHeaderWasRead /\ HeaderWasRead
    /\ probe.inp.f.magic = IMAGE_DOS_SIGNATURE
    /\ probe.inp.f.lfanew = probe.inp.f.ntoff /\ probe.inp.f.lfanew >= OffLfanew + 4
    /\ probe.inp.f.sig # IMAGE_NT_SIGNATURE
    /\ probe.inp.f.machine = IMAGE_FILE_MACHINE_AMD64
    /\ probe.ret = "invalid"

\* C15: a call makes one CreateFileW call and at most one ReadFile call, none when
\* the open failed, and the ReadFile call requests min(fileSize, 4096) bytes.
C15_OneOpenOneRead ==
    probe.called =>
        /\ probe.nOpen = 1
        /\ probe.nRead = (IF Opened THEN 1 ELSE 0)
        /\ Opened => probe.readSize = Min(probe.inp.f.size, SizeofData)

C15_Witness ==
    /\ ReadDone /\ probe.nOpen = 1 /\ probe.nRead = 1
    /\ probe.inp.f.size < SizeofData /\ probe.inp.f.size > 0
    /\ probe.readSize = probe.inp.f.size

\* C20: every byte of data that a call inspects lies inside the bytes the read
\* returned and inside the 4096 bytes of data.
C20_InspectsOnlyBytesRead ==
    ReadDone =>
        \A i \in probe.touched : i < probe.inp.read /\ i < SizeofData

AllReturned == \A t \in Thread : thr[t].pc = "idle"

\* C16: when threads call emalloc, efree and erealloc concurrently, no update of
\* the counter is lost: once every call has returned, memleaks() is the number of
\* allocations minus the number of releases, under every interleaving.
C16_NoLostUpdate ==
    (proc = "running" /\ AllReturned) => memleaks = nAlloc - nFree

Elements(s) ==
    {SubSeq(s, a, b) : a \in 1..(Len(s) + 1), b \in 0..Len(s)} \cap
    {e \in StringsUpTo(ListChars \ {1}, Len(s)) :
        \E a \in 1..(Len(s) + 1) :
            /\ a = 1 \/ s[a - 1] = 1
            /\ a + Len(e) = Len(s) + 1 \/ (a + Len(e) <= Len(s) /\ s[a + Len(e)] = 1)
            /\ e = SubSeq(s, a, a + Len(e) - 1)}

EqualIgnoringCase(a, b) ==
    Len(a) = Len(b) /\ \A i \in 1..Len(a) : tolower(a[i]) = tolower(b[i])

IsMember(cmd_list, cmd) ==
    ~cmd_list.null /\ ~cmd.null /\ \E e \in Elements(cmd_list.s) : EqualIgnoringCase(e, cmd.s)

ContainsDone == txt.called /\ txt.fn = "arraycontains"

\* C18: arraycontains(cmd_list, cmd) returns true if and only if both arguments
\* are not null and cmd equals, ignoring ASCII case, one of the elements that
\* splitting cmd_list at every '\1' gives; it returns false for a null argument.
C18_TrueIffMember ==
    ContainsDone =>
        /\ txt.ret = "true" <=> IsMember(txt.inp.cmd_list, txt.inp.cmd)
        /\ (txt.inp.cmd_list.null \/ txt.inp.cmd.null) => txt.ret = "false"

\* The characters formathex keeps ('0'-'9', 'A'-'F', 'a'-'f') and those formatdec keeps.
HexDigits == (48..57) \cup (65..70) \cup (97..102)
DecDigits == 48..57
IsHexDigit(c) == c \in HexDigits
IsDecDigit(c) == c \in DecDigits
UpperCased(s) == [i \in 1..Len(s) |-> IF s[i] \in 97..122 THEN s[i] - 32 ELSE s[i]]

DigitsOf(fn, s) ==
    IF fn = "formathex" THEN SelectSeq(s, IsHexDigit) ELSE SelectSeq(s, IsDecDigit)

\* C19: formathex(s) leaves in s the upper-cased subsequence of its hexadecimal
\* digits in their order, formatdec that of its decimal digits: the result is
\* never longer than the input, is empty when the input has no such character,
\* and a second application leaves the string as it is.
C19_FormatKeepsDigits ==
    (txt.called /\ txt.fn \in {"formathex", "formatdec"}) =>
        /\ txt.s = UpperCased(DigitsOf(txt.fn, txt.before))
        /\ Len(txt.s) <= Len(txt.before)
        /\ (\A i \in 1..Len(txt.before) : txt.before[i] \notin
                (IF txt.fn = "formathex" THEN HexDigits ELSE DecDigits)) => txt.s = <<>>
        /\ txt.n = 2 => txt.s = txt.before

C19_Witness ==
    /\ txt.called /\ txt.fn = "formathex" /\ txt.n = 2
    /\ txt.orig = <<97, 103, 57>>
    /\ txt.s = <<65, 57>>

\* The classification of the same call had the stack held g.
RetWithStack(g) == GetFileArchitecture([probe.inp EXCEPT !.g = g]).ret

\* C21: GetFileArchitecture is a function of the file's first min(fileSize, 4096)
\* bytes and its size: with the open and the read succeeding and the read
\* returning all the bytes requested, the classification is the same whatever the
\* local buffer held before the call.
C21_IndependentOfStack ==
    FullRead => \A g \in Garbage : RetWithStack(g) = probe.ret

\* C22: a DOS header whose e_lfanew is negative is classified invalid, and no byte
\* before the start of data is inspected.
C22_NegativeLfanewIsInvalid ==
    /\ (ReadDone /\ DataMagicOk /\ DataLfanew < 0) => probe.ret = "invalid"
    /\ ReadDone => \A i \in probe.touched : i >= 0

C22_Witness ==
    /\ DosHeaderWasRead /\ DataMagicOk /\ DataLfanew = -1
    /\ probe.inp.f.lfanew = -1
    /\ probe.ret = "invalid"
    /\ OffLfanew \in probe.touched

\* C24: json_malloc and json_free count like emalloc and efree: a run in which
\* json_malloc(n) stands for every emalloc(n, r) and json_free(p) for every
\* efree(p, r) has the same memleaks() value after every call, and
\* json_free(json_malloc(n)) leaves memleaks() as it was.
C24_JsonCountsAlike ==
    twin.called =>
        /\ twin.count = memleaks
        /\ twin.proc = proc
        /\ twin.ret = last.ret
        /\ (last.op = "efree" /\ last.undo.is) => twin.count = last.undo.pre

C24_Witness ==
    /\ twin.called /\ twin.reason = "json:ptr"
    /\ last.op = "efree" /\ last.undo.is /\ last.wasLive
    /\ twin.nAlloc = 2 /\ twin.nFree = 1
    /\ twin.count = 1 /\ last.undo.pre = 1

\* ---------------------------------------------------------------------------
\* Configuration
\* ---------------------------------------------------------------------------

\* The step is one call of op on the object.
CfgCalled(op) == cfg.called /\ cfg'.called /\ cfg'.op = op /\ cfg'.n = cfg.n + 1

LoadSaveTabOrder == cfg.Bools["Miscellaneous"]["LoadSaveTabOrder"]

\* C23: save (writeUints) with Miscellaneous/LoadSaveTabOrder false leaves every
\* TabOrder entry that has a stored value unwritten and its stored value as it
\* was; every other uint entry, and every TabOrder entry when the setting is true
\* or nothing is stored for it, is written with its in-memory value.
C23_WriteUintsSkipsStoredTabOrder ==
    [][CfgCalled("save") =>
          \A k \in KeysOf(cfg.Uints) :
              IF ~LoadSaveTabOrder /\ k[1] = "TabOrder" /\ k \in DOMAIN cfg.uintStore
              THEN /\ k \notin cfg'.writes
                   /\ cfg'.uintStore[k] = cfg.uintStore[k]
              ELSE /\ k \in cfg'.writes
                   /\ cfg'.uintStore[k] = cfg.Uints[k[1]][k[2]]]_vars

\* save with the setting false: the stored CPUTab value (7) differs from the
\* in-memory one (0) and stays; LogTab, which had no stored value, and the
\* HexDump entry are written.
C23_Witness ==
    /\ cfg.called /\ cfg.op = "save"
    /\ ~LoadSaveTabOrder
    /\ cfg.Uints["TabOrder"]["CPUTab"] = 0
    /\ cfg.uintStore[<<"TabOrder", "CPUTab">>] = 7
    /\ <<"TabOrder", "CPUTab">> \notin cfg.writes
    /\ <<"TabOrder", "LogTab">> \in cfg.writes
    /\ cfg.uintStore[<<"TabOrder", "LogTab">>] = cfg.Uints["TabOrder"]["LogTab"]
    /\ <<"HexDump", "DefaultView">> \in cfg.writes

SameKeys(m, d) ==
    /\ DOMAIN m = DOMAIN d
    /\ \A category \in DOMAIN d : DOMAIN m[category] = DOMAIN d[category]

\* The key of a call's arguments is not in the map the call works on.
UnknownKey(op) ==
    CASE op \in {"getBool", "setBool"} ->
            ~(cfg'.args[1] \in DOMAIN cfg.Bools /\ cfg'.args[2] \in DOMAIN cfg.Bools[cfg'.args[1]])
      [] op \in {"getUint", "setUint"} ->
            ~(cfg'.args[1] \in DOMAIN cfg.Uints /\ cfg'.args[2] \in DOMAIN cfg.Uints[cfg'.args[1]])
      [] op \in {"getShortcut", "setShortcut"} -> cfg'.args[1] \notin DOMAIN cfg.Shortcuts
      [] op = "getColor" -> cfg'.args[1] \notin DOMAIN cfg.Colors
      [] op = "getFont" -> cfg'.args[1] \notin DOMAIN cfg.Fonts

SameValues ==
    /\ cfg'.Colors = cfg.Colors /\ cfg'.Bools = cfg.Bools /\ cfg'.Uints = cfg.Uints
    /\ cfg'.Fonts = cfg.Fonts /\ cfg'.Shortcuts = cfg.Shortcuts
    /\ cfg'.uintStore = cfg.uintStore /\ cfg'.strStore = cfg.strStore

\* C25: after construction and after every sequence of calls the key sets of
\* Bools, Uints and Shortcuts are those of the default maps; a set* call with an
\* unknown category or id changes no value and adds no key.
C25_KeySetsAreTheDefaults ==
    /\ [](cfg.called =>
            /\ SameKeys(cfg.Bools, defaultBools)
            /\ SameKeys(cfg.Uints, defaultUints)
            /\ DOMAIN cfg.Shortcuts = DOMAIN defaultShortcuts)
    /\ [][\A op \in {"setBool", "setUint", "setShortcut"} :
             (CfgCalled(op) /\ UnknownKey(op)) => SameValues]_vars

\* setUint with a category that exists and an id that does not, after a setUint
\* that did store a value.
C25_Witness ==
    /\ cfg.called /\ cfg.n = 2
    /\ cfg.op = "setUint" /\ cfg.args = <<"TabOrder", "NoSuchId">>
    /\ Len(cfg.boxes) = 1
    /\ cfg.Uints["TabOrder"]["CPUTab"] = 7
    /\ cfg.uintStore[<<"TabOrder", "CPUTab">>] = 0
    /\ SameKeys(cfg.Uints, defaultUints)

\* The value a get* or set* returns for an unknown key.
IsFallback(op) ==
    CASE op = "getColor" -> cfg'.ret = "#000000"
      [] op = "getBool" -> cfg'.ret = FALSE
      [] op = "getUint" -> cfg'.ret = 0
      [] op = "getFont" -> cfg'.ret = "Lucida Console,8"
      [] op = "getShortcut" -> cfg'.ret = [Name |-> "", Hotkey |-> ""]
      [] op \in {"setBool", "setUint", "setShortcut"} -> cfg'.ret = "void"

GetSetOps ==
    {"getColor", "getBool", "setBool", "getUint", "setUint", "getFont", "getShortcut", "setShortcut"}

\* C26: noMoreMsgbox is false after construction, goes from false to true only in
\* a call that showed a message box answered Cancel, and never goes back to
\* false; while it is true a get* or set* for an unknown key shows no message box
\* and returns the fallback value.
C26_NoMoreMsgboxIsALatch ==
    /\ [](cfg.called /\ cfg.op = "Configuration" => ~cfg.noMoreMsgbox)
    /\ [][cfg.called =>
            /\ cfg.noMoreMsgbox => cfg'.noMoreMsgbox
            /\ (~cfg.noMoreMsgbox /\ cfg'.noMoreMsgbox) =>
                  /\ cfg'.n = cfg.n + 1
                  /\ Len(cfg'.boxes) = 1
                  /\ cfg'.boxes[1].answer = "Cancel"
            /\ \A op \in GetSetOps :
                  (cfg.noMoreMsgbox /\ CfgCalled(op) /\ UnknownKey(op)) =>
                      /\ cfg'.boxes = <<>>
                      /\ IsFallback(op)
                      /\ SameValues]_vars

\* getFont for an unknown id with the latch already set: the fallback font and
\* no message box.
C26_Witness ==
    /\ cfg.called /\ cfg.n = 2
    /\ cfg.noMoreMsgbox
    /\ cfg.op = "getFont" /\ cfg.args = <<"NoSuchId">>
    /\ cfg.boxes = <<>>
    /\ cfg.ret = "Lucida Console,8"

====
